---- MODULE Spec2Model ----
(***************************************************************************)
(* A model of package bytesreplacer (src/replace.go): the Replacer built   *)
(* by New from a list of old/new pairs, its two engines (the generic trie  *)
(* engine and the single-byte table engine) and the two operations Replace *)
(* and Write, run by callers over their own buffers and sinks.             *)
(***************************************************************************)
EXTENDS Integers, Sequences, FiniteSets, TLC

(***************************************************************************)
(* Bounds of the model.                                                    *)
(***************************************************************************)
\* Longest input buffer handed to Replace or Write by a single caller whose
\* sink never fails.
MaxInputLen == 3
\* Longest input buffer handed to Write by a caller whose sink may fail.
MaxSinkLen == 2
\* Longest input buffer of a caller that runs concurrently with another one.
MaxConcLen == 2

\* The byte values of the model: a subset of Go's byte type (0..255).
Byte == {0, 1}

\* The argument lists of New: how many old/new pairs, how long an old
\* string (pattern) and how long a new string (replacement).
PairCounts == {0, 1, 2}

OldLens == {0, 1, 2, 3}

NewLens == {0, 1}

\* The same where two callers run concurrently.
ConcPairCounts == {0, 1}

ConcOldLens == {0, 1, 2}

\* The error values an io.Writer of the model can report; "nil" is no error.
SinkErrors == {"ErrShortWrite", "ErrClosedPipe"}

\* The callers (goroutines) that use the Replacer.
Procs == {1, 2}

VARIABLES
    oldnew,   \* the argument list New was called with (old, new, old, new, ...)
    r,        \* the Replacer New returned
    scan      \* per caller: the call in progress, its locals, buffer and sink

vars == <<oldnew, r, scan>>

(***************************************************************************)
(* Byte slices.                                                            *)
(***************************************************************************)
SeqsUpTo(S, n) == UNION {[1..k -> S] : k \in 0..n}

Min(a, b) == IF a < b THEN a ELSE b

\* s[from:] with Go's 0-based offset.
SliceFrom(s, from) == SubSeq(s, from + 1, Len(s))

\* s[from:to] with Go's 0-based offsets.
Slice(s, from, to) == SubSeq(s, from + 1, to)

\* bytes.HasPrefix
HasPrefix(s, prefix) ==
    /\ Len(s) >= Len(prefix)
    /\ SubSeq(s, 1, Len(prefix)) = prefix

(***************************************************************************)
(* The trie of the generic engine.  Nodes live in a store (a sequence);    *)
(* a *trieNode is an index into it, 0 is the nil pointer and 1 is          *)
(* genericReplacer.root.  hasTable tells a nil table from an empty one.    *)
(***************************************************************************)
NilNode == 0

RootNode == 1

trieNode ==
    [value |-> <<>>, priority |-> 0, prefix |-> <<>>, next |-> NilNode,
     hasTable |-> FALSE, table |-> <<>>]

\* make([]*trieNode, r.tableSize)
MakeTable(size) == [j \in 1..size |-> NilNode]

\* The loop of add that finds the length of the longest common prefix.
RECURSIVE CommonPrefixLen(_, _, _)
CommonPrefixLen(prefix, key, n) ==
    IF n < Len(prefix) /\ n < Len(key) /\ prefix[n + 1] = key[n + 1]
    THEN CommonPrefixLen(prefix, key, n + 1)
    ELSE n

\* trieNode.add: the node store after adding key -> val below node t.
RECURSIVE add(_, _, _, _, _, _)
add(nodes, t, key, val, priority, g) ==
    IF Len(key) = 0 THEN
        IF nodes[t].priority = 0
        THEN [nodes EXCEPT ![t].value = val, ![t].priority = priority]
        ELSE nodes
    ELSE IF Len(nodes[t].prefix) > 0 THEN
        LET prefix == nodes[t].prefix
            n == CommonPrefixLen(prefix, key, 0)
        IN  IF n = Len(prefix) THEN
                add(nodes, nodes[t].next, SliceFrom(key, n), val, priority, g)
            ELSE IF n = 0 THEN
                LET withPrefixNode ==
                        IF Len(prefix) = 1 THEN nodes
                        ELSE Append(nodes, [trieNode EXCEPT
                                 !.prefix = SliceFrom(prefix, 1),
                                 !.next = nodes[t].next])
                    prefixNode ==
                        IF Len(prefix) = 1 THEN nodes[t].next
                        ELSE Len(withPrefixNode)
                    withKeyNode == Append(withPrefixNode, trieNode)
                    keyNode == Len(withKeyNode)
                    table == [MakeTable(g.tableSize) EXCEPT
                                 ![g.mapping[prefix[1]] + 1] = prefixNode,
                                 ![g.mapping[key[1]] + 1] = keyNode]
                    split == [withKeyNode EXCEPT
                                 ![t].hasTable = TRUE,
                                 ![t].table = table,
                                 ![t].prefix = <<>>,
                                 ![t].next = NilNode]
                IN  add(split, keyNode, SliceFrom(key, 1), val, priority, g)
            ELSE
                LET withNext == Append(nodes, [trieNode EXCEPT
                                    !.prefix = SliceFrom(prefix, n),
                                    !.next = nodes[t].next])
                    next == Len(withNext)
                    split == [withNext EXCEPT
                                 ![t].prefix = Slice(prefix, 0, n),
                                 ![t].next = next]
                IN  add(split, next, SliceFrom(key, n), val, priority, g)
    ELSE IF nodes[t].hasTable THEN
        LET m == g.mapping[key[1]] + 1
            withChild ==
                IF nodes[t].table[m] = NilNode
                THEN [Append(nodes, trieNode) EXCEPT ![t].table[m] = Len(nodes) + 1]
                ELSE nodes
        IN  add(withChild, withChild[t].table[m], SliceFrom(key, 1), val, priority, g)
    ELSE
        LET withNext == [Append(nodes, trieNode) EXCEPT
                            ![t].prefix = key,
                            ![t].next = Len(nodes) + 1]
        IN  add(withNext, Len(nodes) + 1, <<>>, val, priority, g)

\* The number of old/new pairs of an argument list.
NumPairs(on) == Len(on) \div 2

\* oldnew[i] and oldnew[i+1] of the pair with Go index i = 2*(j-1).
OldOf(on, j) == on[2 * j - 1]

NewOf(on, j) == on[2 * j]

\* The first loop of makeGenericReplacer: the bytes used by some key.
UsedBytes(on) ==
    {b \in Byte : \E j \in 1..NumPairs(on) :
                     \E k \in 1..Len(OldOf(on, j)) : OldOf(on, j)[k] = b}

\* AddPairs with the priority growing with the Go index i (i + 1 for
\* len(oldnew) - i): later declarations outrank earlier ones.
RECURSIVE AddPairsLaterWins(_, _, _)
AddPairsLaterWins(g, on, j) ==
    IF j > NumPairs(on) THEN g
    ELSE AddPairsLaterWins(
            [g EXCEPT !.nodes = add(g.nodes, RootNode, OldOf(on, j), NewOf(on, j),
                                    2 * (j - 1) + 1, g)],
            on, j + 1)

\* The insertion loop of makeGenericReplacer, from pair j on.
RECURSIVE AddPairs(_, _, _)
AddPairs(g, on, j) ==
    IF j > NumPairs(on) THEN g
    ELSE AddPairs(
            [g EXCEPT !.nodes = add(g.nodes, RootNode, OldOf(on, j), NewOf(on, j),
                                    Len(on) - 2 * (j - 1), g)],
            on, j + 1)

\* makeGenericReplacer without the sentinel: the bytes no key uses keep
\* index 0 instead of getting tableSize.
makeGenericReplacerNoSentinel(on) ==
    LET used == UsedBytes(on)
        tableSize == Cardinality(used)
        mapping == [b \in Byte |->
                       IF b \in used THEN Cardinality({c \in used : c < b}) ELSE 0]
        root == [trieNode EXCEPT !.hasTable = TRUE, !.table = MakeTable(tableSize)]
    IN  AddPairs([nodes |-> <<root>>, tableSize |-> tableSize, mapping |-> mapping],
                 on, 1)

\* makeGenericReplacer
makeGenericReplacer(on) ==
    LET used == UsedBytes(on)
        tableSize == Cardinality(used)
        mapping == [b \in Byte |->
                       IF b \in used
                       THEN Cardinality({c \in used : c < b})
                       ELSE tableSize % 256]
        root == [trieNode EXCEPT !.hasTable = TRUE, !.table = MakeTable(tableSize)]
    IN  AddPairs([nodes |-> <<root>>, tableSize |-> tableSize, mapping |-> mapping],
                 on, 1)

\* The loop of genericReplacer.lookup, from node on with n bytes consumed.
RECURSIVE lookupLoop(_, _, _, _, _, _)
lookupLoop(g, node, s, n, best, ignoreRoot) ==
    IF node = NilNode THEN best
    ELSE
        LET nd == g.nodes[node]
            b == IF nd.priority > best.bestPriority /\ ~(ignoreRoot /\ node = RootNode)
                 THEN [bestPriority |-> nd.priority, val |-> nd.value,
                       keylen |-> n, found |-> TRUE]
                 ELSE best
        IN  IF Len(s) = 0 THEN b
            ELSE IF nd.hasTable THEN
                LET index == g.mapping[s[1]]
                IN  IF index = g.tableSize THEN b
                    ELSE lookupLoop(g, nd.table[index + 1], SliceFrom(s, 1),
                                    n + 1, b, ignoreRoot)
            ELSE IF Len(nd.prefix) > 0 /\ HasPrefix(s, nd.prefix) THEN
                lookupLoop(g, nd.next, SliceFrom(s, Len(nd.prefix)),
                           n + Len(nd.prefix), b, ignoreRoot)
            ELSE b

\* lookup that never ignores the root's empty match.
lookupRootAlways(g, s, ignoreRoot) ==
    LET res == lookupLoop(g, RootNode, s, 0,
                          [bestPriority |-> 0, val |-> <<>>, keylen |-> 0,
                           found |-> FALSE],
                          FALSE)
    IN  [val |-> res.val, keylen |-> res.keylen, found |-> res.found]

\* genericReplacer.lookup
lookup(g, s, ignoreRoot) ==
    LET res == lookupLoop(g, RootNode, s, 0,
                          [bestPriority |-> 0, val |-> <<>>, keylen |-> 0,
                           found |-> FALSE],
                          ignoreRoot)
    IN  [val |-> res.val, keylen |-> res.keylen, found |-> res.found]


\* The fast path of Write and hasMatch: s[i] is not a prefix of any pattern.
fastPath(g, s, i) ==
    /\ i # Len(s)
    /\ g.nodes[RootNode].priority = 0
    /\ LET index == g.mapping[s[i + 1]]
       IN  \/ index = g.tableSize
           \/ g.nodes[RootNode].table[index + 1] = NilNode

\* hasMatch whose loop stops before the end of s (i < len(s)).
RECURSIVE hasMatchLoopShort(_, _, _)
hasMatchLoopShort(g, s, i) ==
    IF i >= Len(s) THEN FALSE
    ELSE IF fastPath(g, s, i) THEN hasMatchLoopShort(g, s, i + 1)
    ELSE IF lookup(g, SliceFrom(s, i), FALSE).found THEN TRUE
    ELSE hasMatchLoopShort(g, s, i + 1)

\* genericReplacer.hasMatch, its loop from position i on.
RECURSIVE hasMatchLoop(_, _, _)
hasMatchLoop(g, s, i) ==
    IF i > Len(s) THEN FALSE
    ELSE IF fastPath(g, s, i) THEN hasMatchLoop(g, s, i + 1)
    ELSE IF lookup(g, SliceFrom(s, i), FALSE).found THEN TRUE
    ELSE hasMatchLoop(g, s, i + 1)

hasMatch(g, s) == hasMatchLoop(g, s, 0)

(***************************************************************************)
(* The single-byte engine.                                                 *)
(***************************************************************************)
\* The array a fresh byteReplacer is filled with: r[i] = byte(i).
ByteIdentity == [b \in Byte |-> b]

\* The pairs set in declaration order, j counting the pairs still to set:
\* the last pair with an old byte wins.
RECURSIVE SetBytePairsForward(_, _, _)
SetBytePairsForward(tbl, on, j) ==
    IF j < 1 THEN tbl
    ELSE LET k == NumPairs(on) - j + 1
         IN  SetBytePairsForward([tbl EXCEPT ![OldOf(on, k)[1]] = NewOf(on, k)[1]],
                                 on, j - 1)

\* The second loop of New's byteReplacer branch: pairs j, j-1, ..., 1.
RECURSIVE SetBytePairs(_, _, _)
SetBytePairs(tbl, on, j) ==
    IF j < 1 THEN tbl
    ELSE SetBytePairs([tbl EXCEPT ![OldOf(on, j)[1]] = NewOf(on, j)[1]], on, j - 1)

\* No generic engine, no byte table: the fields a Replacer of the other kind lacks.
NoGeneric == [nodes |-> <<>>, tableSize |-> 0, mapping |-> ByteIdentity]

\* New: which engine is chosen, and the engine built.
New(on) ==
    IF \E j \in 1..NumPairs(on) : Len(OldOf(on, j)) # 1
    THEN [kind |-> "generic", g |-> makeGenericReplacer(on), b |-> ByteIdentity]
    ELSE IF \A j \in 1..NumPairs(on) : Len(NewOf(on, j)) = 1
    THEN [kind |-> "byte", g |-> NoGeneric,
          b |-> SetBytePairs(ByteIdentity, on, NumPairs(on))]
    ELSE [kind |-> "generic", g |-> makeGenericReplacer(on), b |-> ByteIdentity]

\* byteReplacer.Replace: every byte of s overwritten by its table entry.
byteReplace(b, s) == [k \in 1..Len(s) |-> b[s[k]]]

\* bufsize of byteReplacer.Write: 32 << 10.
BufSize == 32768

(***************************************************************************)
(* Sinks.  A sink records what was delivered to it, how many Write calls   *)
(* it got, the byte counts it reported, and its first failure.             *)
(***************************************************************************)
NewWriter ==
    [data |-> <<>>, calls |-> 0, reported |-> 0, failCall |-> 0, failErr |-> "nil"]

\* What a sink decides about one Write call: succeed, or fail with an error
\* after accepting at most accept bytes.
Succeed == [err |-> "nil", accept |-> 0]

Decisions ==
    {Succeed} \cup [err : SinkErrors, accept : 0..MaxSinkLen]

\* io.Writer.Write(p) on sink w under decision d: the sink afterwards and
\* the (n, err) it returns.
WriterWrite(w, p, d) ==
    LET wn == IF d.err = "nil" THEN Len(p) ELSE Min(d.accept, Len(p))
        first == d.err # "nil" /\ w.failCall = 0
    IN  [w |-> [data |-> w.data \o SubSeq(p, 1, wn),
                calls |-> w.calls + 1,
                reported |-> w.reported + wn,
                failCall |-> IF first THEN w.calls + 1 ELSE w.failCall,
                failErr |-> IF first THEN d.err ELSE w.failErr],
         n |-> wn,
         err |-> d.err]

\* The plan of a sink for the (at most two) Write calls of one step: which
\* call fails (0: none), and how.  NoFail is also appendSliceWriter, the
\* buffer Replace writes to, which appends and never fails.
NoFail == [at |-> 0, err |-> "nil", accept |-> 0]

FailPlans ==
    {NoFail} \cup [at : {1, 2}, err : SinkErrors, accept : 0..MaxSinkLen]

DecisionAt(f, k) ==
    IF f.at = k THEN [err |-> f.err, accept |-> f.accept] ELSE Succeed

(***************************************************************************)
(* A caller's call: the program counter, the operation, the caller's       *)
(* buffer s (s0 is its content when the call was made), the locals of      *)
(* Write, the sink w, and what the call returned.                          *)
(***************************************************************************)
NoReturn == [same |-> FALSE, bytes |-> <<>>]

Idle ==
    [pc |-> "idle", op |-> "none", s0 |-> <<>>, s |-> <<>>,
     i |-> 0, last |-> 0, prevMatchEmpty |-> FALSE, rest |-> <<>>,
     n |-> 0, err |-> "nil", w |-> NewWriter, ret |-> NoReturn]

\* writeMatch that moves one byte on after a match (i++ for i += keylen).
writeMatchByOne(st, m, f) ==
    LET w1 == WriterWrite(st.w, Slice(st.s, st.last, st.i), DecisionAt(f, 1))
        w2 == WriterWrite(w1.w, m.val, DecisionAt(f, 2))
    IN  IF w1.err # "nil" THEN
            [st EXCEPT !.w = w1.w, !.n = st.n + w1.n, !.err = w1.err, !.pc = "done"]
        ELSE IF w2.err # "nil" THEN
            [st EXCEPT !.w = w2.w, !.n = st.n + w1.n + w2.n, !.err = w2.err,
                       !.pc = "done"]
        ELSE
            [st EXCEPT !.w = w2.w, !.n = st.n + w1.n + w2.n,
                       !.i = st.i + 1, !.last = st.i + 1]

\* writeMatch that drops the error of its first write and writes on.
writeMatchIgnoreErr(st, m, f) ==
    LET w1 == WriterWrite(st.w, Slice(st.s, st.last, st.i), DecisionAt(f, 1))
        w2 == WriterWrite(w1.w, m.val, DecisionAt(f, 2))
    IN  IF w2.err # "nil" THEN
            [st EXCEPT !.w = w2.w, !.n = st.n + w1.n + w2.n, !.err = w2.err,
                       !.pc = "done"]
        ELSE
            [st EXCEPT !.w = w2.w, !.n = st.n + w1.n + w2.n,
                       !.i = st.i + m.keylen, !.last = st.i + m.keylen]

\* The match branch of the loop of genericReplacer.Write: s[last:i] and the
\* replacement are written, and the scan moves past the match m.
writeMatch(st, m, f) ==
    LET w1 == WriterWrite(st.w, Slice(st.s, st.last, st.i), DecisionAt(f, 1))
        w2 == WriterWrite(w1.w, m.val, DecisionAt(f, 2))
    IN  IF w1.err # "nil" THEN
            [st EXCEPT !.w = w1.w, !.n = st.n + w1.n, !.err = w1.err, !.pc = "done"]
        ELSE IF w2.err # "nil" THEN
            [st EXCEPT !.w = w2.w, !.n = st.n + w1.n + w2.n, !.err = w2.err,
                       !.pc = "done"]
        ELSE
            [st EXCEPT !.w = w2.w, !.n = st.n + w1.n + w2.n,
                       !.i = st.i + m.keylen, !.last = st.i + m.keylen]

\* The end of genericReplacer.Write, after its loop: the tail is written.
writeTail(st, f) ==
    IF st.last # Len(st.s) THEN
        LET w1 == WriterWrite(st.w, SliceFrom(st.s, st.last), DecisionAt(f, 1))
        IN  [st EXCEPT !.w = w1.w, !.n = st.n + w1.n, !.err = w1.err, !.pc = "done"]
    ELSE [st EXCEPT !.pc = "done"]

\* genericWrite that keeps "the previous match was empty" in the Replacer
\* instead of a local: the root's priority is negated after an empty match
\* and restored by the next iteration.
genericWriteMarkRoot(g, st, f) ==
    IF st.i <= Len(st.s) THEN
        IF fastPath(g, st.s, st.i)
        THEN [g |-> g, st |-> [st EXCEPT !.i = st.i + 1]]
        ELSE
            LET rootPriority == g.nodes[RootNode].priority
                m == lookup(g, SliceFrom(st.s, st.i), FALSE)
                empty == m.found /\ m.keylen = 0
                matched == [st EXCEPT !.prevMatchEmpty = empty]
                g2 == IF empty \/ rootPriority < 0
                      THEN [g EXCEPT !.nodes[RootNode].priority = 0 - rootPriority]
                      ELSE g
            IN  IF m.found
                THEN [g |-> g2, st |-> writeMatch(matched, m, f)]
                ELSE [g |-> g2, st |-> [matched EXCEPT !.i = st.i + 1]]
    ELSE [g |-> g, st |-> writeTail(st, f)]

\* genericReplacer.Write: one iteration of its loop or, once the loop is
\* over, its end; f is what the sink does with the writes of this step.
\* The receiver is handed back beside the locals.
genericWrite(g, st, f) ==
    IF st.i <= Len(st.s) THEN
        IF fastPath(g, st.s, st.i)
        THEN [g |-> g, st |-> [st EXCEPT !.i = st.i + 1]]
        ELSE
            LET m == lookup(g, SliceFrom(st.s, st.i), st.prevMatchEmpty)
                matched == [st EXCEPT !.prevMatchEmpty = m.found /\ m.keylen = 0]
            IN  IF m.found
                THEN [g |-> g, st |-> writeMatch(matched, m, f)]
                ELSE [g |-> g, st |-> [matched EXCEPT !.i = st.i + 1]]
    ELSE [g |-> g, st |-> writeTail(st, f)]

\* The body of genericReplacer.Replace after hasMatch said yes: a step of
\* r.Write(&buf, s) and, when Write is over, return buf.
genericReplaceScan(g, st) ==
    LET res == genericWrite(g, st, NoFail)
    IN  IF res.st.pc = "done"
        THEN [g |-> res.g,
              st |-> [res.st EXCEPT !.ret = [same |-> FALSE, bytes |-> res.st.w.data]]]
        ELSE res

\* genericReplace with the test of hasMatch inverted.
genericReplaceInverted(g, st) ==
    IF hasMatch(g, st.s)
    THEN [st EXCEPT !.pc = "done", !.ret = [same |-> TRUE, bytes |-> st.s]]
    ELSE [st EXCEPT !.pc = "scan"]

\* genericReplacer.Replace up to the call of Write.
genericReplace(g, st) ==
    IF ~hasMatch(g, st.s)
    THEN [st EXCEPT !.pc = "done", !.ret = [same |-> TRUE, bytes |-> st.s]]
    ELSE [st EXCEPT !.pc = "scan"]

\* byteReplacer.Replace on the caller's buffer.
byteReplacerReplace(b, st) ==
    LET t == byteReplace(b, st.s)
    IN  [st EXCEPT !.pc = "done", !.s = t, !.ret = [same |-> TRUE, bytes |-> t]]

\* byteReplacer.Write: one iteration of its loop, or its end; rest is what
\* is left of s, d what the sink does with the write.
byteReplacerWrite(b, st, d) ==
    LET bufsize == Min(BufSize, Len(st.s))
    IN  IF Len(st.rest) > 0 THEN
            LET ncopy == Min(bufsize, Len(st.rest))
                buf == byteReplace(b, Slice(st.rest, 0, ncopy))
                w1 == WriterWrite(st.w, buf, d)
            IN  IF w1.err # "nil"
                THEN [st EXCEPT !.rest = SliceFrom(st.rest, ncopy), !.w = w1.w,
                                !.n = st.n + w1.n, !.err = w1.err, !.pc = "done"]
                ELSE [st EXCEPT !.rest = SliceFrom(st.rest, ncopy), !.w = w1.w,
                                !.n = st.n + w1.n]
        ELSE [st EXCEPT !.pc = "done"]

(***************************************************************************)
(* The state machine: New has returned r; callers call Replace and Write.  *)
(***************************************************************************)
\* The byte strings with a length of lens.
StrsOf(lens) == UNION {[1..k -> Byte] : k \in lens}

\* The argument lists of New with a number of pairs of counts and old
\* strings with a length of oldLens.
ArgListsOf(counts, oldLens) ==
    UNION {{on \in [1..2 * k -> StrsOf(oldLens \cup NewLens)] :
               \A j \in 1..k : /\ Len(on[2 * j - 1]) \in oldLens
                               /\ Len(on[2 * j]) \in NewLens}
           : k \in counts}

ArgLists == ArgListsOf(PairCounts, OldLens)

Inputs == SeqsUpTo(Byte, MaxInputLen)

Init ==
    /\ oldnew \in ArgLists
    /\ r = New(oldnew)
    /\ scan = [p \in Procs |-> Idle]

\* Caller p calls r.Replace(s) on a generic Replacer.
GenericReplace(p, s) ==
    /\ r.kind = "generic"
    /\ scan[p].pc = "idle"
    /\ scan' = [scan EXCEPT ![p] =
                   genericReplace(r.g, [Idle EXCEPT !.op = "Replace", !.s0 = s, !.s = s])]
    /\ UNCHANGED <<oldnew, r>>

\* Caller p's Replace runs a step of Write into its own buffer.
GenericReplaceScan(p) ==
    /\ r.kind = "generic"
    /\ scan[p].pc = "scan"
    /\ scan[p].op = "Replace"
    /\ LET res == genericReplaceScan(r.g, scan[p])
       IN  /\ scan' = [scan EXCEPT ![p] = res.st]
           /\ r' = [r EXCEPT !.g = res.g]
    /\ UNCHANGED oldnew

\* Caller p calls r.Write(w, s) on a generic Replacer: the locals are set up.
GenericWriteCall(p, s) ==
    /\ r.kind = "generic"
    /\ scan[p].pc = "idle"
    /\ scan' = [scan EXCEPT ![p] =
                   [Idle EXCEPT !.pc = "scan", !.op = "Write", !.s0 = s, !.s = s]]
    /\ UNCHANGED <<oldnew, r>>

\* A step of caller p's genericReplacer.Write; the sink follows a plan of plans.
GenericWrite(p, plans) ==
    /\ r.kind = "generic"
    /\ scan[p].pc = "scan"
    /\ scan[p].op = "Write"
    /\ \E f \in plans :
           LET res == genericWrite(r.g, scan[p], f)
           IN  /\ scan' = [scan EXCEPT ![p] = res.st]
               /\ r' = [r EXCEPT !.g = res.g]
    /\ UNCHANGED oldnew

\* Caller p calls r.Replace(s) on a byte Replacer.
ByteReplace(p, s) ==
    /\ r.kind = "byte"
    /\ scan[p].pc = "idle"
    /\ scan' = [scan EXCEPT ![p] =
                   byteReplacerReplace(r.b, [Idle EXCEPT !.op = "Replace", !.s0 = s, !.s = s])]
    /\ UNCHANGED <<oldnew, r>>

\* Caller p calls r.Write(w, s) on a byte Replacer: buf is allocated.
ByteWriteCall(p, s) ==
    /\ r.kind = "byte"
    /\ scan[p].pc = "idle"
    /\ scan' = [scan EXCEPT ![p] =
                   [Idle EXCEPT !.pc = "scan", !.op = "Write", !.s0 = s, !.s = s,
                                !.rest = s]]
    /\ UNCHANGED <<oldnew, r>>

\* A step of caller p's byteReplacer.Write; the sink decides among decisions.
ByteWrite(p, decisions) ==
    /\ r.kind = "byte"
    /\ scan[p].pc = "scan"
    /\ scan[p].op = "Write"
    /\ \E d \in decisions :
           scan' = [scan EXCEPT ![p] = byteReplacerWrite(r.b, scan[p], d)]
    /\ UNCHANGED <<oldnew, r>>

\* Caller p has its result and is free to make another call.
Return(p) ==
    /\ scan[p].pc = "done"
    /\ scan' = [scan EXCEPT ![p] = Idle]
    /\ UNCHANGED <<oldnew, r>>

\* One caller, whose sink never fails.
Next ==
    \/ \E s \in Inputs : GenericReplace(1, s)
    \/ GenericReplaceScan(1)
    \/ \E s \in Inputs : GenericWriteCall(1, s)
    \/ GenericWrite(1, {NoFail})
    \/ \E s \in Inputs : ByteReplace(1, s)
    \/ \E s \in Inputs : ByteWriteCall(1, s)
    \/ ByteWrite(1, {Succeed})
    \/ Return(1)

Spec == Init /\ [][Next]_vars

\* One caller of Write, whose sink may fail any write.
SinkInputs == SeqsUpTo(Byte, MaxSinkLen)

NextSink ==
    \/ \E s \in SinkInputs : GenericWriteCall(1, s)
    \/ GenericWrite(1, FailPlans)
    \/ \E s \in SinkInputs : ByteWriteCall(1, s)
    \/ ByteWrite(1, Decisions)
    \/ Return(1)

SpecSink == Init /\ [][NextSink]_vars

\* Two callers on one Replacer, each with its own buffer and its own sink.
ConcInputs == SeqsUpTo(Byte, MaxConcLen)

InitConc ==
    /\ oldnew \in ArgListsOf(ConcPairCounts, ConcOldLens)
    /\ r = New(oldnew)
    /\ scan = [p \in Procs |-> Idle]

NextConc ==
    \E p \in Procs :
        \/ \E s \in ConcInputs : GenericReplace(p, s)
        \/ GenericReplaceScan(p)
        \/ \E s \in ConcInputs : GenericWriteCall(p, s)
        \/ GenericWrite(p, {NoFail})
        \/ \E s \in ConcInputs : ByteReplace(p, s)
        \/ \E s \in ConcInputs : ByteWriteCall(p, s)
        \/ ByteWrite(p, {Succeed})
        \/ Return(p)

SpecConc == InitConc /\ [][NextConc]_vars

(***************************************************************************)
(* What the properties are stated with: the declared pairs read directly  *)
(* from the argument list, and calls run to their end.                     *)
(***************************************************************************)
IsPrefixOf(a, b) == Len(a) <= Len(b) /\ SubSeq(b, 1, Len(a)) = a

\* The pairs of on whose old string is a prefix of s (the empty old string
\* left out when ignoreEmpty is set).
Candidates(on, s, ignoreEmpty) ==
    {j \in 1..NumPairs(on) :
        /\ HasPrefix(s, OldOf(on, j))
        /\ ~(ignoreEmpty /\ Len(OldOf(on, j)) = 0)}

\* The earliest-declared candidate's replacement and length.
RefLookup(on, s, ignoreEmpty) ==
    LET c == Candidates(on, s, ignoreEmpty)
    IN  IF c = {} THEN [val |-> <<>>, keylen |-> 0, found |-> FALSE]
        ELSE LET j == CHOOSE k \in c : \A l \in c : k <= l
             IN  [val |-> NewOf(on, j), keylen |-> Len(OldOf(on, j)), found |-> TRUE]

\* The output of a left-to-right, non-overlapping replacement of s from
\* position i on.
RECURSIVE RefScan(_, _, _, _)
RefScan(on, s, i, ignoreEmpty) ==
    IF i > Len(s) THEN <<>>
    ELSE LET m == RefLookup(on, SliceFrom(s, i), ignoreEmpty)
         IN  IF m.found
             THEN m.val \o RefScan(on, s, i + m.keylen, m.keylen = 0)
             ELSE (IF i < Len(s) THEN <<s[i + 1]>> ELSE <<>>)
                  \o RefScan(on, s, i + 1, FALSE)

RefReplace(on, s) == RefScan(on, s, 0, FALSE)

\* Some declared pattern matches somewhere in s.
AnyMatch(on, s) ==
    \E i \in 0..Len(s) : RefLookup(on, SliceFrom(s, i), FALSE).found

\* No byte of s is the first byte of a declared pattern.
NoFirstByte(on, s) ==
    \A k \in 1..Len(s) : \A j \in 1..NumPairs(on) :
        Len(OldOf(on, j)) > 0 => OldOf(on, j)[1] # s[k]

NoEmptyPattern(on) == \A j \in 1..NumPairs(on) : Len(OldOf(on, j)) > 0

\* x before every byte of s and once at its end.
RECURSIVE Interleave(_, _)
Interleave(x, s) ==
    IF Len(s) = 0 THEN x ELSE x \o <<Head(s)>> \o Interleave(x, Tail(s))

\* The calls as a caller makes them.
ReplaceCall(s) == [Idle EXCEPT !.op = "Replace", !.s0 = s, !.s = s]

WriteCall(s) ==
    [Idle EXCEPT !.pc = "scan", !.op = "Write", !.s0 = s, !.s = s, !.rest = s]

\* genericReplacer.Write run to its end on a sink that never fails.
RECURSIVE RunGenericWrite(_, _)
RunGenericWrite(g, st) ==
    IF st.pc = "done" THEN st
    ELSE LET res == genericWrite(g, st, NoFail) IN RunGenericWrite(res.g, res.st)

\* byteReplacer.Write run to its end on a sink that never fails.
RECURSIVE RunByteWrite(_, _)
RunByteWrite(b, st) ==
    IF st.pc = "done" THEN st ELSE RunByteWrite(b, byteReplacerWrite(b, st, Succeed))

\* genericReplacer.Replace run to its end.
RECURSIVE RunGenericReplace(_, _)
RunGenericReplace(g, st) ==
    IF st.pc = "done" THEN st
    ELSE LET res == genericReplaceScan(g, st) IN RunGenericReplace(res.g, res.st)

\* What Write(w, s) delivers to a buffer sink.
GenericOutput(g, s) == RunGenericWrite(g, [WriteCall(s) EXCEPT !.rest = <<>>]).w.data

WriteOutput(rr, s) ==
    IF rr.kind = "generic" THEN GenericOutput(rr.g, s)
    ELSE RunByteWrite(rr.b, WriteCall(s)).w.data

\* A whole call of caller state st0 (as left by the call action) run alone.
RunAlone(rr, st0) ==
    IF rr.kind = "generic"
    THEN IF st0.op = "Replace" THEN RunGenericReplace(rr.g, st0)
         ELSE RunGenericWrite(rr.g, st0)
    ELSE IF st0.op = "Replace" THEN st0 ELSE RunByteWrite(rr.b, st0)

\* The bytes a finished call produced.
Output(st) == IF st.op = "Replace" THEN st.ret.bytes ELSE st.w.data

DoneReplace(p) == scan[p].pc = "done" /\ scan[p].op = "Replace"

DoneWrite(p) == scan[p].pc = "done" /\ scan[p].op = "Write"

(***************************************************************************)
(* C1.  With the generic engine, lookup on a suffix returns the            *)
(* replacement and the length of the earliest-declared pattern among the   *)
(* declared patterns that are a prefix of the suffix (declaration order    *)
(* alone decides, never length; of two pairs with the same pattern the     *)
(* first counts), and reports no match exactly when no declared pattern    *)
(* is a prefix (the empty pattern left out only when ignoreRoot is set).   *)
(* Checked at every suffix a scan stands at, for both values of            *)
(* ignoreRoot.                                                             *)
(***************************************************************************)
C1_LookupEarliestDeclared ==
    \A p \in Procs :
        (r.kind = "generic" /\ scan[p].pc = "scan" /\ scan[p].i <= Len(scan[p].s)) =>
            \A ignoreRoot \in BOOLEAN :
                lookup(r.g, SliceFrom(scan[p].s, scan[p].i), ignoreRoot)
                    = RefLookup(oldnew, SliceFrom(scan[p].s, scan[p].i), ignoreRoot)

\* A scan stands where the first pair's shorter pattern and the second
\* pair's longer one both match, and lookup takes the first.
C1_Witness ==
    \E p \in Procs :
        /\ r.kind = "generic" /\ scan[p].pc = "scan" /\ scan[p].i <= Len(scan[p].s)
        /\ NumPairs(oldnew) = 2
        /\ Len(OldOf(oldnew, 1)) < Len(OldOf(oldnew, 2))
        /\ NewOf(oldnew, 1) # NewOf(oldnew, 2)
        /\ Candidates(oldnew, SliceFrom(scan[p].s, scan[p].i), FALSE) = {1, 2}
        /\ lookup(r.g, SliceFrom(scan[p].s, scan[p].i), FALSE)
               = [val |-> NewOf(oldnew, 1), keylen |-> Len(OldOf(oldnew, 1)),
                  found |-> TRUE]

(***************************************************************************)
(* C2.  What Replace(s) returns equals what Write(w, s) delivers to a      *)
(* buffer sink that never fails, given the same input content: for the     *)
(* generic engine (also when hasMatch makes Replace return s itself) and   *)
(* for the single-byte engine.                                             *)
(***************************************************************************)
C2_ReplaceEqualsWrite ==
    \A p \in Procs :
        DoneReplace(p) => scan[p].ret.bytes = WriteOutput(r, scan[p].s0)

\* Replace of the generic engine returned s itself, for a table with
\* patterns and an input with bytes.
C2_Witness ==
    \E p \in Procs :
        /\ DoneReplace(p) /\ r.kind = "generic" /\ scan[p].ret.same
        /\ NumPairs(oldnew) > 0 /\ Len(scan[p].s0) > 1
        /\ WriteOutput(r, scan[p].s0) = scan[p].s0

(***************************************************************************)
(* C3, as first stated: for every table and every input with no byte that  *)
(* is the first byte of a declared pattern, Replace returns the input      *)
(* unchanged.                                                              *)
(***************************************************************************)
C3_Original ==
    \A p \in Procs :
        (DoneReplace(p) /\ NoFirstByte(oldnew, scan[p].s0)) =>
            scan[p].ret.bytes = scan[p].s0

(***************************************************************************)
(* C3, amended.  For every table that declares no empty pattern and every  *)
(* input with no byte that is the first byte of a declared pattern,        *)
(* Replace returns the input unchanged.                                    *)
(***************************************************************************)
C3_NoFirstByteIdentity ==
    \A p \in Procs :
        (DoneReplace(p) /\ NoEmptyPattern(oldnew) /\ NoFirstByte(oldnew, scan[p].s0)) =>
            scan[p].ret.bytes = scan[p].s0

C3_Witness ==
    \E p \in Procs :
        /\ DoneReplace(p) /\ r.kind = "generic"
        /\ NumPairs(oldnew) = 2 /\ NoEmptyPattern(oldnew)
        /\ Len(scan[p].s0) > 1 /\ NoFirstByte(oldnew, scan[p].s0)
        /\ scan[p].ret.bytes = scan[p].s0

(***************************************************************************)
(* C4.  In the generic scan matches are taken left to right and never      *)
(* overlap: a match starts at or after the end of the match consumed       *)
(* before it; after a match the position advances by exactly the matched   *)
(* pattern's length and after a non-match by one byte; the input bytes no  *)
(* match covers are emitted literally, once and in order, and replacement  *)
(* bytes are never examined for matches, so the whole output is the        *)
(* left-to-right replacement of the input.                                 *)
(***************************************************************************)
C4_Step(p) ==
    LET st == scan[p]
        st2 == scan'[p]
    IN  (r.kind = "generic" /\ st.pc = "scan" /\ st2 # st) =>
            /\ st.last <= st.i
            /\ IF st.i <= Len(st.s) THEN
                   LET m == lookup(r.g, SliceFrom(st.s, st.i), st.prevMatchEmpty)
                   IN  IF m.found THEN
                           \/ /\ st2.pc = "scan"
                              /\ st2.i = st.i + m.keylen
                              /\ st2.last = st2.i
                              /\ st2.w.data =
                                     st.w.data \o Slice(st.s, st.last, st.i) \o m.val
                           \/ /\ st2.pc = "done"
                              /\ st2.err # "nil"
                       ELSE /\ st2.pc = "scan"
                            /\ st2.i = st.i + 1
                            /\ st2.last = st.last
                            /\ st2.w.data = st.w.data
               ELSE /\ st2.pc = "done"
                    /\ st2.err = "nil" =>
                           /\ st2.w.data = st.w.data \o SliceFrom(st.s, st.last)
                           /\ st2.w.data = RefReplace(oldnew, st.s0)

\* C4: every step of every generic scan is a step as described above.
C4_NonOverlappingScan == [][\A p \in Procs : C4_Step(p)]_vars

\* ("aa", "b") applied to "aaa" gave "ba".
C4_Witness ==
    \E p \in Procs :
        /\ DoneWrite(p) /\ scan[p].err = "nil"
        /\ oldnew = <<(<<0, 0>>), (<<1>>)>>
        /\ scan[p].s0 = <<0, 0, 0>>
        /\ scan[p].w.data = <<1, 0>>

(***************************************************************************)
(* C5.  For every table whose patterns and replacements are all exactly    *)
(* one byte long (the tables New gives the byte-table engine, duplicate    *)
(* old bytes and chains such as a->b, b->a among them), the byte-table     *)
(* engine's output on every input equals the output of the generic engine  *)
(* built from the same table.                                              *)
(***************************************************************************)
C5_ByteEqualsGeneric ==
    \A p \in Procs :
        (r.kind = "byte" /\ scan[p].pc = "done" /\ scan[p].err = "nil") =>
            Output(scan[p]) = GenericOutput(makeGenericReplacer(oldnew), scan[p].s0)

\* (a, b), (b, a) applied to "ab" gave "ba".
C5_Witness ==
    \E p \in Procs :
        /\ r.kind = "byte" /\ DoneReplace(p)
        /\ oldnew = <<(<<0>>), (<<1>>), (<<1>>), (<<0>>)>>
        /\ scan[p].s0 = <<0, 1>>
        /\ scan[p].ret.bytes = <<1, 0>>

(***************************************************************************)
(* C6.  In Write of either engine, when a write to the sink returns an     *)
(* error the scan stops at that first error: that error is returned        *)
(* unchanged, no further write is issued to the sink, what earlier writes  *)
(* delivered stays delivered and is a prefix of the transformed output,    *)
(* and the returned n is the sum of the byte counts the sink reported for  *)
(* all writes made, the failing one included.                              *)
(***************************************************************************)
C6_StopAtFirstSinkError ==
    \A p \in Procs :
        scan[p].op = "Write" =>
            /\ scan[p].n = scan[p].w.reported
            /\ (scan[p].err # "nil") = (scan[p].w.failCall # 0)
            /\ scan[p].w.failCall # 0 =>
                   /\ scan[p].pc = "done"
                   /\ scan[p].err = scan[p].w.failErr
                   /\ scan[p].w.calls = scan[p].w.failCall
                   /\ IsPrefixOf(scan[p].w.data, WriteOutput(r, scan[p].s0))

\* The write of a replacement failed after bytes had been delivered.
C6_Witness ==
    \E p \in Procs :
        /\ r.kind = "generic" /\ DoneWrite(p)
        /\ scan[p].w.failCall = 2 /\ scan[p].w.calls = 2
        /\ scan[p].err = "ErrClosedPipe"
        /\ scan[p].n > 0
        /\ Len(scan[p].w.data) < Len(WriteOutput(r, scan[p].s0))

(***************************************************************************)
(* C7.  Replace performs all replacements in place on s and returns the    *)
(* modified slice: after Replace(s) returns, the caller's buffer s holds   *)
(* the transformed content and the returned slice is that same buffer.     *)
(***************************************************************************)
C7_ReplaceInPlace ==
    \A p \in Procs :
        DoneReplace(p) =>
            /\ scan[p].ret.same
            /\ scan[p].s = RefReplace(oldnew, scan[p].s0)

(***************************************************************************)
(* C8, as first stated: for every Replacer and input, Replace returns the  *)
(* input's own storage only when no pattern matches anywhere in the input, *)
(* the storage content being unchanged then; whenever a match occurs the   *)
(* result is a freshly allocated buffer.                                   *)
(***************************************************************************)
C8_Fresh(p) ==
    /\ AnyMatch(oldnew, scan[p].s0) => ~scan[p].ret.same
    /\ scan[p].ret.same =>
           /\ scan[p].s = scan[p].s0
           /\ scan[p].ret.bytes = scan[p].s0

C9_Step(p) ==
    LET st == scan[p]
        st2 == scan'[p]
        call == IF st2.op = "Replace" THEN ReplaceCall(st2.s0) ELSE WriteCall(st2.s0)
        alone == IF r.kind = "generic" /\ st2.op = "Replace"
                 THEN RunGenericReplace(r.g, genericReplace(r.g, call))
                 ELSE IF r.kind = "generic"
                 THEN RunGenericWrite(r.g, [call EXCEPT !.rest = <<>>])
                 ELSE IF st2.op = "Replace" THEN byteReplacerReplace(r.b, call)
                 ELSE RunByteWrite(r.b, call)
    IN  (st.pc # "done" /\ st2.pc = "done") => st2 = alone

\* C9: no step changes the Replacer, which stays as New built it, and every
\* call that ends, ends as it does alone.
C9_ReadOnlyReplacer ==
    [][/\ r' = r
       /\ r = New(oldnew)
       /\ \A p \in Procs : C9_Step(p)]_vars

\* One caller has its replaced output while the other is in mid-scan.
C9_Witness ==
    /\ r.kind = "generic"
    /\ scan[1].pc = "done" /\ Output(scan[1]) # scan[1].s0
    /\ scan[2].pc = "scan" /\ scan[2].i > 0 /\ scan[2].w.data # <<>>

(***************************************************************************)
(* C10.  Empty-pattern progress: the loop of the generic scan terminates   *)
(* (each step lowers a measure bounded below by 0); a zero-length match is *)
(* never accepted in two consecutive iterations at one position (the       *)
(* iteration after it ignores the root's empty match and the position      *)
(* advances); and for the table ("", X) the replacement X is emitted once  *)
(* before each input byte and once at the end of the input.                *)
(***************************************************************************)
Measure(st) ==
    IF st.pc = "done" THEN 0
    ELSE 2 * (Len(st.s) + 2 - st.i) - (IF st.prevMatchEmpty THEN 1 ELSE 0)

C10_Step(p) ==
    LET st == scan[p]
        st2 == scan'[p]
    IN  (r.kind = "generic" /\ st.pc = "scan" /\ st2 # st) =>
            /\ st.i <= Len(st.s) + 1
            /\ Measure(st2) < Measure(st)
            /\ Measure(st2) >= 0
            /\ (st.prevMatchEmpty /\ st2.pc = "scan") =>
                   (~st2.prevMatchEmpty /\ st2.i > st.i)
            /\ (/\ st2.pc = "done" /\ st2.err = "nil"
                /\ NumPairs(oldnew) = 1 /\ Len(OldOf(oldnew, 1)) = 0) =>
                   Output(st2) = Interleave(NewOf(oldnew, 1), st.s0)

\* C10: every step of every generic scan makes progress as described above.
C10_EmptyPatternProgress == [][\A p \in Procs : C10_Step(p)]_vars

\* ("", X) applied to "ab" gave "XaXbX".
C10_Witness ==
    \E p \in Procs :
        /\ DoneWrite(p) /\ scan[p].err = "nil"
        /\ oldnew = <<(<<>>), (<<1>>)>>
        /\ scan[p].s0 = <<0, 1>>
        /\ scan[p].w.data = <<1, 0, 1, 1, 1>>

====
